---- MODULE Spec2Model ----
(***************************************************************************)
(* check/pytest-changed-files: one run of the script, from argument        *)
(* parsing to its exit status.                                             *)
(*                                                                         *)
(* Text (an argument, a revision, a path, a line of stderr) is a sequence  *)
(* of tokens; a token is a run of characters that the script's pattern     *)
(* matches and substitutions never cut: "-" the flag marker, " " the IFS   *)
(* blank, "\\t" the two characters backslash and t, ".py" and "_test" the  *)
(* suffixes of the sed and grep patterns.                                  *)
(***************************************************************************)
EXTENDS Integers, Sequences, FiniteSets, TLC

VARIABLES
    args,         \* "$@": the positional parameters
    objtype,      \* the repository: revision name -> type `git cat-file -t` prints
    modified,     \* the paths that differ between the working tree and the revision
    exists,       \* the paths that exist on disk (perl -e)
    seedEnv,      \* CIRQ_TESTING_RANDOM_SEED in the caller's environment
    commitTime,   \* `git log -1 --pretty=%ct`
    pc,           \* the script's position
    rev,          \* $rev
    rest,         \* $rest
    changed,      \* the array `changed`
    num_changed,  \* $num_changed
    status,       \* $?, the exit status of the last command
    exitCode,     \* the exit status of the script, NoExit while it runs
    stderr,       \* the lines written to stderr
    checked,      \* the texts given to `git cat-file -t`, in order
    diff1,        \* the output of the first `git diff --name-only`
    diff2,        \* the output of the second `git diff --name-only`
    diffRevs,     \* the revision words each `git diff` was given, in order
    seed,         \* CIRQ_TESTING_RANDOM_SEED in the script: [set, val, exported]
    gitLogCalls,  \* how many times `git log -1` ran
    pytestCalls,  \* the pytest invocations: [argv, flags, files, seed, code]
    edits         \* how many times another process modified the working tree

vars == <<args, objtype, modified, exists, seedEnv, commitTime, pc, rev, rest,
          changed, num_changed, status, exitCode, stderr, checked, diff1, diff2,
          diffRevs, seed, gitLogCalls, pytestCalls, edits>>

(***************************************************************************)
(* Bounds.                                                                 *)
(***************************************************************************)
MaxArgLen == 2    \* tokens in the first argument
MaxChanged == 2   \* paths in the initial diff
MaxEdits == 1     \* modifications of the working tree by another process

NoExit == -1

(***************************************************************************)
(* Text.                                                                   *)
(***************************************************************************)
StartsWith(s, p) == Len(s) >= Len(p) /\ SubSeq(s, 1, Len(p)) = p

EndsWith(s, p) == Len(s) >= Len(p) /\ SubSeq(s, Len(s) - Len(p) + 1, Len(s)) = p

Contains(s, p) == \E i \in 0..(Len(s) - Len(p)) : SubSeq(s, i + 1, i + Len(p)) = p

Count(x, s) == Cardinality({i \in 1..Len(s) : s[i] = x})

Range(s) == {s[i] : i \in 1..Len(s)}

RECURSIVE SplitFrom(_, _, _, _)
SplitFrom(s, i, cur, acc) ==
    IF i > Len(s)
    THEN IF cur = <<>> THEN acc ELSE Append(acc, cur)
    ELSE IF s[i] = " "
         THEN SplitFrom(s, i + 1, <<>>, IF cur = <<>> THEN acc ELSE Append(acc, cur))
         ELSE SplitFrom(s, i + 1, Append(cur, s[i]), acc)

\* An unquoted expansion: split at IFS blanks, empty words dropped.
WordSplit(s) == SplitFrom(s, 1, <<>>, <<>>)

RECURSIVE JoinArgs(_)
\* $@ in an assignment: the parameters joined by one blank.
JoinArgs(a) ==
    IF a = <<>> THEN <<>>
    ELSE IF Len(a) = 1 THEN a[1]
    ELSE a[1] \o <<" ">> \o JoinArgs(Tail(a))

\* echo -e: backslash escapes of the whole text are interpreted.
Unescape(t) ==
    CASE t = "\\t" -> "<TAB>"
      [] t = "\\033[31m" -> "<ESC>[31m"
      [] t = "\\033[0m" -> "<ESC>[0m"
      [] OTHER -> t

EchoE(s) == [i \in 1..Len(s) |-> Unescape(s[i])]

(***************************************************************************)
(* Revisions.                                                              *)
(***************************************************************************)
\* The defaults probed in another order.
DefaultRevsReordered == << <<"origin/master">>, <<"upstream/master">>, <<"master">> >>

DefaultRevs == << <<"upstream/master">>, <<"origin/master">>, <<"master">> >>

RevNames == Range(DefaultRevs) \cup { <<"HEAD">> }

\* $1, empty when there is no first parameter.
Arg1 == IF Len(args) >= 1 THEN args[1] ELSE <<>>

\* [ ! -z "$1" ] && [[ $1 != -* ]]
IsRevisionArg(a) == a # <<>> /\ ~StartsWith(a, <<"-">>)

\* git cat-file -t <words> 2> /dev/null: the type of the one object named,
\* nothing when git fails.
CatFile(words) ==
    IF Len(words) = 1 /\ words[1] \in DOMAIN objtype THEN objtype[words[1]] ELSE ""

\* "$(git cat-file -t $r 2> /dev/null)" == "commit", $r unquoted.
IsCommit(r) == CatFile(WordSplit(r)) = "commit"

RECURSIVE FirstCommit(_, _)
\* The elif chain over the default revisions: the index of the first one
\* that is a commit, 0 when none is.
FirstCommit(revs, i) ==
    IF i > Len(revs) THEN 0
    ELSE IF IsCommit(revs[i]) THEN i
    ELSE FirstCommit(revs, i + 1)

DefaultIndex == FirstCommit(DefaultRevs, 1)

(***************************************************************************)
(* Paths.                                                                  *)
(***************************************************************************)
FooPy == <<"a/", "foo", ".py">>
FooTest == <<"a/", "foo", "_test", ".py">>
FooTestTest == <<"a/", "foo", "_test", "_test", ".py">>
InitA == <<"a/", "__init__", ".py">>
InitB == <<"b/", "__init__", ".py">>
JsonPy == <<"cirq-core/cirq/protocols/", "json_serialization", ".py">>
Readme == <<"a/", "README", ".md">>

\* 'cirq-core/cirq/protocols/json_serialization_test.py'
FixedPath == <<"cirq-core/cirq/protocols/", "json_serialization", "_test", ".py">>

Paths == {FooPy, FooTest, FooTestTest, InitA, InitB, JsonPy, FixedPath, Readme}

TestPaths == {FooTest, FooTestTest, FixedPath}

\* The paths that may be on disk.
DiskPaths == TestPaths \cup {Readme}

EditablePaths == {FooPy, InitA}

\* The byte order of the tokens' first characters.
TokenRank(t) ==
    CASE t = ".md" -> 1
      [] t = ".py" -> 2
      [] t = "README" -> 3
      [] t = "__init__" -> 4
      [] t = "_test" -> 5
      [] t = "a/" -> 6
      [] t = "b/" -> 7
      [] t = "cirq-core/cirq/protocols/" -> 8
      [] t = "foo" -> 9
      [] t = "json_serialization" -> 10
      [] OTHER -> 0

RECURSIVE LexLess(_, _)
LexLess(a, b) ==
    IF a = <<>> THEN b # <<>>
    ELSE IF b = <<>> THEN FALSE
    ELSE IF TokenRank(Head(a)) # TokenRank(Head(b))
         THEN TokenRank(Head(a)) < TokenRank(Head(b))
         ELSE LexLess(Tail(a), Tail(b))

RECURSIVE InsertLine(_, _)
InsertLine(p, s) ==
    IF s = <<>> THEN <<p>>
    ELSE IF LexLess(Head(s), p) THEN <<Head(s)>> \o InsertLine(p, Tail(s))
    ELSE <<p>> \o s

\* The pipeline without its `sort`.
SortOmitted(s) == s

RECURSIVE Sort(_)
\* sort
Sort(s) == IF s = <<>> THEN <<>> ELSE InsertLine(Head(s), Sort(Tail(s)))

\* The pipeline without its `uniq`.
UniqOmitted(s) == s

RECURSIVE Uniq(_)
\* uniq: adjacent equal lines become one
Uniq(s) ==
    IF Len(s) <= 1 THEN s
    ELSE IF s[1] = s[2] THEN Uniq(Tail(s))
    ELSE <<s[1]>> \o Uniq(Tail(s))

RECURSIVE SetToSeq(_)
SetToSeq(S) ==
    IF S = {} THEN <<>>
    ELSE LET p == CHOOSE x \in S : TRUE IN <<p>> \o SetToSeq(S \ {p})

\* git diff --name-only <words> --: the modified paths in path order, nothing
\* when git fails on the revision.
GitDiffNames(words) ==
    IF Len(words) = 1 /\ CatFile(words) \in {"commit", "tag"}
    THEN Sort(SetToSeq(modified))
    ELSE <<>>

\* The pipeline without its grep.
GrepPyOmitted(lines) == lines

\* grep "\.py$"
GrepPy(lines) == LET Keep(p) == EndsWith(p, <<".py">>) IN SelectSeq(lines, Keep)

\* sed -e "s/\.py$/_test.py/"
SedTest(p) ==
    IF EndsWith(p, <<".py">>) THEN SubSeq(p, 1, Len(p) - 1) \o <<"_test", ".py">> ELSE p

\* The pipeline without the second sed.
SedCollapseOmitted(p) == p

\* sed -e "s/_test_test\.py$/_test.py/"
SedCollapse(p) ==
    IF EndsWith(p, <<"_test", "_test", ".py">>)
    THEN SubSeq(p, 1, Len(p) - 3) \o <<"_test", ".py">>
    ELSE p

\* The pipeline without the existence filter.
PerlExistsOmitted(lines) == lines

\* perl -ne 'chomp(); if (-e $_) {print "$_\n"}'
PerlExists(lines) == LET Keep(p) == p \in exists IN SelectSeq(lines, Keep)

\* The candidate a line of the diff becomes before the existence filter.
TestPathOf(p) == SedCollapse(SedTest(p))

\* The pipeline that fills the array `changed`.
DeriveTests(lines) ==
    LET py == GrepPy(lines)
        cand == [i \in 1..Len(py) |-> TestPathOf(py[i])]
    IN Uniq(Sort(PerlExists(cand)))

\* grep "__init__\.py$" > /dev/null
HasInit(lines) == \E i \in 1..Len(lines) : EndsWith(lines[i], <<"__init__", ".py">>)

(***************************************************************************)
(* Messages.                                                               *)
(***************************************************************************)
NoRevisionMsg(a) == EchoE(<<"\\033[31m", "No revision '">> \o a \o <<"'.", "\\033[0m">>)

NoDefaultMsg ==
    EchoE(<<"\\033[31m", "No default revision found to compare against.",
            " ", "Argument #1 must be what to diff against (e.g. 'origin/master' or 'HEAD~1').",
            "\\033[0m">>)

ComparingMsg(r) == <<"Comparing against revision '">> \o r \o <<"'.">>

FoundMsg(n) == <<"Found ", ToString(n), " test files associated with changes.">>

(***************************************************************************)
(* The script.                                                             *)
(***************************************************************************)
env == <<args, objtype, exists, seedEnv, commitTime>>

\* Lines 35-40: the first parameter is taken as the revision and is no commit.
ExplicitNoRevision ==
    /\ pc = "parse"
    /\ IsRevisionArg(Arg1)
    /\ ~IsCommit(Arg1)
    /\ checked' = Append(checked, Arg1)
    /\ rest' = JoinArgs(args)
    /\ stderr' = Append(stderr, NoRevisionMsg(Arg1))
    /\ exitCode' = 1
    /\ pc' = "done"
    /\ UNCHANGED <<env, modified, rev, changed, num_changed, status, diff1, diff2,
                   seed, gitLogCalls, pytestCalls, edits, diffRevs>>

\* Lines 35-37, 41-42: the first parameter is the revision.
ExplicitRevision ==
    /\ pc = "parse"
    /\ IsRevisionArg(Arg1)
    /\ IsCommit(Arg1)
    /\ checked' = Append(checked, Arg1)
    /\ rev' = Arg1
    /\ rest' = JoinArgs(Tail(args))
    /\ pc' = "announce"
    /\ UNCHANGED <<env, modified, changed, num_changed, status, exitCode, stderr,
                   diff1, diff2, seed, gitLogCalls, pytestCalls, edits, diffRevs>>

\* Lines 35, 43-48: the first default revision that is a commit.
DefaultRevision ==
    /\ pc = "parse"
    /\ ~IsRevisionArg(Arg1)
    /\ DefaultIndex # 0
    /\ checked' = checked \o SubSeq(DefaultRevs, 1, DefaultIndex)
    /\ rev' = DefaultRevs[DefaultIndex]
    /\ rest' = JoinArgs(args)
    /\ pc' = "announce"
    /\ UNCHANGED <<env, modified, changed, num_changed, status, exitCode, stderr,
                   diff1, diff2, seed, gitLogCalls, pytestCalls, edits, diffRevs>>

\* The else branch without its `exit 1`: the script goes on to line 53.
NoDefaultRevisionNoExit ==
    /\ pc = "parse"
    /\ ~IsRevisionArg(Arg1)
    /\ DefaultIndex = 0
    /\ checked' = checked \o DefaultRevs
    /\ rest' = JoinArgs(args)
    /\ stderr' = Append(stderr, NoDefaultMsg)
    /\ pc' = "announce"
    /\ UNCHANGED <<env, modified, rev, changed, num_changed, status, exitCode, diff1,
                   diff2, seed, gitLogCalls, pytestCalls, edits, diffRevs>>

\* Lines 35, 49-52: no default revision is a commit.
NoDefaultRevision ==
    /\ pc = "parse"
    /\ ~IsRevisionArg(Arg1)
    /\ DefaultIndex = 0
    /\ checked' = checked \o DefaultRevs
    /\ rest' = JoinArgs(args)
    /\ stderr' = Append(stderr, NoDefaultMsg)
    /\ exitCode' = 1
    /\ pc' = "done"
    /\ UNCHANGED <<env, modified, rev, changed, num_changed, status, diff1, diff2,
                   seed, gitLogCalls, pytestCalls, edits, diffRevs>>

\* Line 53.
Announce ==
    /\ pc = "announce"
    /\ stderr' = Append(stderr, ComparingMsg(rev))
    /\ pc' = "derive"
    /\ UNCHANGED <<env, modified, rev, rest, changed, num_changed, status, exitCode,
                   checked, diff1, diff2, seed, gitLogCalls, pytestCalls, edits, diffRevs>>

\* Lines 56-65: the first diff (${rev} unquoted) through the pipeline into `changed`.
DeriveChanged ==
    /\ pc = "derive"
    /\ diff1' = GitDiffNames(WordSplit(rev))
    /\ diffRevs' = Append(diffRevs, WordSplit(rev))
    /\ changed' = DeriveTests(diff1')
    /\ pc' = "augment"
    /\ UNCHANGED <<env, modified, rev, rest, num_changed, status, exitCode, stderr,
                   checked, diff2, seed, gitLogCalls, pytestCalls, edits>>

\* Another process adds or reverts a modification of the working tree between
\* the script's two diffs.
ModifyWorkTree ==
    /\ pc = "augment"
    /\ edits < MaxEdits
    /\ \E p \in EditablePaths :
          modified' = IF p \in modified THEN modified \ {p} ELSE modified \cup {p}
    /\ edits' = edits + 1
    /\ UNCHANGED <<env, pc, rev, rest, changed, num_changed, status, exitCode, stderr,
                   checked, diff1, diff2, seed, gitLogCalls, pytestCalls, diffRevs>>

\* Lines 66-70 with the fixed path added only if it is on disk.
AugmentInitIfExists ==
    /\ pc = "augment"
    /\ diff2' = GitDiffNames(<<rev>>)
    /\ diffRevs' = Append(diffRevs, <<rev>>)
    /\ changed' = IF HasInit(diff2') /\ FixedPath \in exists
                  THEN Append(changed, FixedPath)
                  ELSE changed
    /\ num_changed' = Len(changed')
    /\ pc' = "report"
    /\ UNCHANGED <<env, modified, rev, rest, status, exitCode, stderr, checked, diff1,
                   seed, gitLogCalls, pytestCalls, edits>>

\* Lines 66-70 with the fixed path added whatever changed.
AugmentInitAlways ==
    /\ pc = "augment"
    /\ diff2' = GitDiffNames(<<rev>>)
    /\ diffRevs' = Append(diffRevs, <<rev>>)
    /\ changed' = Append(changed, FixedPath)
    /\ num_changed' = Len(changed')
    /\ pc' = "report"
    /\ UNCHANGED <<env, modified, rev, rest, status, exitCode, stderr, checked, diff1,
                   seed, gitLogCalls, pytestCalls, edits>>

\* Lines 66-70 with the count taken before the fixed path is added.
AugmentInitCountFirst ==
    /\ pc = "augment"
    /\ diff2' = GitDiffNames(<<rev>>)
    /\ diffRevs' = Append(diffRevs, <<rev>>)
    /\ changed' = IF HasInit(diff2') THEN Append(changed, FixedPath) ELSE changed
    /\ num_changed' = Len(changed)
    /\ pc' = "report"
    /\ UNCHANGED <<env, modified, rev, rest, status, exitCode, stderr, checked, diff1,
                   seed, gitLogCalls, pytestCalls, edits>>

\* Lines 66-70: the second diff ("${rev}" quoted), the fixed path, the count.
AugmentInit ==
    /\ pc = "augment"
    /\ diff2' = GitDiffNames(<<rev>>)
    /\ diffRevs' = Append(diffRevs, <<rev>>)
    /\ changed' = IF HasInit(diff2') THEN Append(changed, FixedPath) ELSE changed
    /\ num_changed' = Len(changed')
    /\ pc' = "report"
    /\ UNCHANGED <<env, modified, rev, rest, status, exitCode, stderr, checked, diff1,
                   seed, gitLogCalls, pytestCalls, edits>>

\* Lines 73-76 without the early `exit 0`.
ReportNoEarlyExit ==
    /\ pc = "report"
    /\ stderr' = Append(stderr, FoundMsg(num_changed))
    /\ pc' = "seed"
    /\ UNCHANGED <<env, modified, rev, rest, changed, num_changed, status, exitCode,
                   checked, diff1, diff2, seed, gitLogCalls, pytestCalls, edits, diffRevs>>

\* Lines 73-76.
Report ==
    /\ pc = "report"
    /\ stderr' = Append(stderr, FoundMsg(num_changed))
    /\ IF num_changed = 0
       THEN exitCode' = 0 /\ pc' = "done"
       ELSE exitCode' = exitCode /\ pc' = "seed"
    /\ UNCHANGED <<env, modified, rev, rest, changed, num_changed, status, checked,
                   diff1, diff2, seed, gitLogCalls, pytestCalls, edits, diffRevs>>

\* Lines 78-81 with ${CIRQ_TESTING_RANDOM_SEED:=...}: an empty value is
\* replaced too.
SetSeedUnsetOrEmpty ==
    /\ pc = "seed"
    /\ seed' = [set |-> TRUE,
                val |-> IF seed.set /\ seed.val # <<>> THEN seed.val ELSE commitTime,
                exported |-> TRUE]
    /\ gitLogCalls' = IF seed.set /\ seed.val # <<>> THEN gitLogCalls ELSE gitLogCalls + 1
    /\ pc' = "pytest"
    /\ UNCHANGED <<env, modified, rev, rest, changed, num_changed, status, exitCode,
                   stderr, checked, diff1, diff2, pytestCalls, edits, diffRevs>>

\* Lines 78-81 without the `export`: the seed stays a shell variable.
SetSeedNotExported ==
    /\ pc = "seed"
    /\ seed' = [set |-> TRUE,
                val |-> IF seed.set THEN seed.val ELSE commitTime,
                exported |-> seed.exported]
    /\ gitLogCalls' = IF seed.set THEN gitLogCalls ELSE gitLogCalls + 1
    /\ pc' = "pytest"
    /\ UNCHANGED <<env, modified, rev, rest, changed, num_changed, status, exitCode,
                   stderr, checked, diff1, diff2, pytestCalls, edits, diffRevs>>

\* Lines 78-81: ${CIRQ_TESTING_RANDOM_SEED=...} assigns only when the variable
\* is unset; then it is exported.  (dev_tools/pypath only sets PYTHONPATH.)
SetSeed ==
    /\ pc = "seed"
    /\ seed' = [set |-> TRUE,
                val |-> IF seed.set THEN seed.val ELSE commitTime,
                exported |-> TRUE]
    /\ gitLogCalls' = IF seed.set THEN gitLogCalls ELSE gitLogCalls + 1
    /\ pc' = "pytest"
    /\ UNCHANGED <<env, modified, rev, rest, changed, num_changed, status, exitCode,
                   stderr, checked, diff1, diff2, pytestCalls, edits, diffRevs>>

PytestCodes == {0, 1, 5}

\* Line 83: pytest ${rest} "${changed[@]}".
RunPytest ==
    /\ pc = "pytest"
    /\ \E code \in PytestCodes :
          /\ pytestCalls' = Append(pytestCalls,
                                   [argv |-> WordSplit(rest) \o changed,
                                    flags |-> WordSplit(rest), files |-> changed,
                                    seed |-> seed, code |-> code])
          /\ status' = code
    /\ pc' = "eof"
    /\ UNCHANGED <<env, modified, rev, rest, changed, num_changed, exitCode, stderr,
                   checked, diff1, diff2, seed, gitLogCalls, edits, diffRevs>>

\* The script exiting 1 on any pytest failure (pytest ... || exit 1).
ScriptEndExitOne ==
    /\ pc = "eof"
    /\ exitCode' = IF status = 0 THEN 0 ELSE 1
    /\ pc' = "done"
    /\ UNCHANGED <<env, modified, rev, rest, changed, num_changed, status, stderr,
                   checked, diff1, diff2, seed, gitLogCalls, pytestCalls, edits, diffRevs>>

\* The end of the script waiting instead of exiting.
ScriptEndWaits ==
    /\ pc = "eof"
    /\ UNCHANGED vars

\* End of file: the script exits with the status of its last command.
ScriptEnd ==
    /\ pc = "eof"
    /\ exitCode' = status
    /\ pc' = "done"
    /\ UNCHANGED <<env, modified, rev, rest, changed, num_changed, status, stderr,
                   checked, diff1, diff2, seed, gitLogCalls, pytestCalls, edits, diffRevs>>

Next ==
    \/ ExplicitNoRevision
    \/ ExplicitRevision
    \/ DefaultRevision
    \/ NoDefaultRevision
    \/ Announce
    \/ DeriveChanged
    \/ ModifyWorkTree
    \/ AugmentInit
    \/ Report
    \/ SetSeed
    \/ RunPytest
    \/ ScriptEnd

(***************************************************************************)
(* Invocations.                                                            *)
(***************************************************************************)
ArgTokens == {"-", "v", " ", "\\t", "HEAD"}

Strings(n) == UNION {[1..k -> ArgTokens] : k \in 0..n}

\* The parameters after the first.
MoreArgs ==
    { <<>>,
      << <<"-", "v">> >>,
      << <<"v", " ", "v">> >>,
      << <<>>, <<"HEAD">> >> }

ArgLists == {<<>>} \cup {<<a>> \o m : a \in Strings(MaxArgLen), m \in MoreArgs}

Repos ==
    {r \in [RevNames -> {"commit", "tag", ""}] :
        \A i \in 1..Len(DefaultRevs) : r[DefaultRevs[i]] # "tag"}

AllCommits == [r \in RevNames |-> "commit"]

Unset == [set |-> FALSE, val |-> <<>>]

SeedEnvs == {Unset, [set |-> TRUE, val |-> <<>>], [set |-> TRUE, val |-> <<"7">>]}

CommitTimes == {<<"1700000000">>, <<"1700000060">>}

Start ==
    /\ pc = "parse"
    /\ rev = <<>>
    /\ rest = <<>>
    /\ changed = <<>>
    /\ num_changed = 0
    /\ status = 0
    /\ exitCode = NoExit
    /\ stderr = <<>>
    /\ checked = <<>>
    /\ diff1 = <<>>
    /\ diff2 = <<>>
    /\ diffRevs = <<>>
    /\ seed = [set |-> seedEnv.set, val |-> seedEnv.val, exported |-> FALSE]
    /\ gitLogCalls = 0
    /\ pytestCalls = <<>>
    /\ edits = 0

\* Any arguments and any repository, over one working tree.
InitRev ==
    /\ args \in ArgLists
    /\ objtype \in Repos
    /\ modified = {FooPy}
    /\ exists = {FooTest}
    /\ seedEnv = Unset
    /\ commitTime \in CommitTimes
    /\ Start

\* Any working tree, with no arguments in a repository that has every revision.
InitFiles ==
    /\ args = <<>>
    /\ objtype = AllCommits
    /\ modified \in {m \in SUBSET Paths : Cardinality(m) <= MaxChanged}
    /\ exists \in SUBSET DiskPaths
    /\ seedEnv \in SeedEnvs
    /\ commitTime \in CommitTimes
    /\ Start

Init == InitRev \/ InitFiles

Spec == Init /\ [][Next]_vars

\* Repositories whose default revisions are all commits or all missing.
FairRepos ==
    {r \in Repos : \A i \in 1..Len(DefaultRevs) : r[DefaultRevs[i]] = r[DefaultRevs[1]]}

\* Invocations with one commit time and no seed in the environment: any
\* arguments over one work tree, or no arguments over a small work tree.
FairInit ==
    /\ \/ args \in ArgLists /\ objtype \in FairRepos /\ modified = {FooPy} /\ exists = {FooTest}
       \/ /\ args = <<>>
          /\ objtype = AllCommits
          /\ modified \in SUBSET {FooPy, InitA, Readme}
          /\ exists \in SUBSET {FooTest, FixedPath}
    /\ seedEnv = Unset
    /\ commitTime = <<"1700000000">>
    /\ Start

\* The position of a step in the script text.
Rank(p) ==
    CASE p = "parse" -> 0
      [] p = "announce" -> 1
      [] p = "derive" -> 2
      [] p = "augment" -> 3
      [] p = "report" -> 4
      [] p = "seed" -> 5
      [] p = "pytest" -> 6
      [] p = "eof" -> 7
      [] p = "done" -> 8

\* The steps of the script itself; ModifyWorkTree is a step of another process.
Script ==
    \/ ExplicitNoRevision
    \/ ExplicitRevision
    \/ DefaultRevision
    \/ NoDefaultRevision
    \/ Announce
    \/ DeriveChanged
    \/ AugmentInit
    \/ Report
    \/ SetSeed
    \/ RunPytest
    \/ ScriptEnd

\* The shell runs the next command once the previous one has returned.
FairSpec == FairInit /\ [][Next]_vars /\ WF_vars(Script)

(***************************************************************************)
(* Properties of the revision resolution.                                  *)
(***************************************************************************)
Upstream == <<"upstream/master">>
Origin == <<"origin/master">>
Master == <<"master">>

\* The caller gave no revision: no arguments, or a first one that begins with "-".
NoRevisionArg == args = <<>> \/ StartsWith(Arg1, <<"-">>)

NoDefaultIsCommit ==
    objtype[Upstream] # "commit" /\ objtype[Origin] # "commit" /\ objtype[Master] # "commit"

\* The first argument is non-empty, does not begin with "-" and is no commit.
BadRevisionArg == Arg1 # <<>> /\ Head(Arg1) # "-" /\ ~IsCommit(Arg1)

OnStderr(text) == \E i \in 1..Len(stderr) : Contains(stderr[i], text)

\* C1: an invocation whose first argument is non-empty, does not begin with
\* "-" and does not resolve to a commit exits with code 1 and writes to stderr
\* an error that contains the argument's text, whatever the default revisions
\* resolve to; neither the diff nor pytest runs.
C1_NoRevisionExit ==
    BadRevisionArg =>
        /\ pc \in {"parse", "done"}
        /\ diffRevs = <<>>
        /\ pytestCalls = <<>>
        /\ pc = "done" => exitCode = 1 /\ OnStderr(Arg1)

\* C1 for the arguments echo -e leaves as they are: the exit code, the message
\* and the absence of diff and pytest hold for every argument without a
\* backslash escape.
C1_NoRevisionExitPlain == "\\t" \notin Range(Arg1) => C1_NoRevisionExit

\* C2: when none of upstream/master, origin/master and master is a commit, an
\* invocation without a revision argument exits with code 1 after writing the
\* "No default revision found" message to stderr, and never runs pytest.
C2_NoDefaultExit ==
    (NoRevisionArg /\ NoDefaultIsCommit) =>
        /\ pc \in {"parse", "done"}
        /\ pytestCalls = <<>>
        /\ diffRevs = <<>>
        /\ pc = "done" =>
              /\ exitCode = 1
              /\ OnStderr(<<"No default revision found to compare against.">>)
              /\ Len(stderr) = 1

C2_Witness ==
    /\ pc = "done"
    /\ StartsWith(Arg1, <<"-">>)
    /\ NoDefaultIsCommit
    /\ exitCode = 1
    /\ stderr = <<NoDefaultMsg>>

\* The first of upstream/master, origin/master, master that is a commit.
FirstDefault ==
    IF objtype[Upstream] = "commit" THEN Upstream
    ELSE IF objtype[Origin] = "commit" THEN Origin
    ELSE IF objtype[Master] = "commit" THEN Master
    ELSE <<>>

\* C3: without a revision argument the revision used for the diff is the first
\* of upstream/master, origin/master, master that resolves to a commit:
\* origin/master only if upstream/master does not resolve, master only if
\* neither of the other two does.
C3_FirstDefaultUsed ==
    NoRevisionArg =>
        /\ pc \notin {"parse", "done"} => rev = FirstDefault /\ rev # <<>>
        /\ \A i \in 1..Len(diffRevs) : diffRevs[i] = <<FirstDefault>>
        /\ rev = Origin => objtype[Upstream] # "commit"
        /\ rev = Master => objtype[Upstream] # "commit" /\ objtype[Origin] # "commit"

C3_Witness ==
    /\ NoRevisionArg
    /\ Len(diffRevs) = 2
    /\ diffRevs[1] = <<Origin>>
    /\ objtype[Upstream] = ""
    /\ objtype[Master] = "commit"

\* C4: a first argument that begins with "-" is never checked or used as a
\* revision: the revision comes from the default candidates, and that argument
\* together with all following arguments is passed to pytest.
C4_FlagPassedThrough ==
    StartsWith(Arg1, <<"-">>) =>
        /\ Arg1 \notin Range(checked)
        /\ rev = <<>> \/ rev \in {Upstream, Origin, Master}
        /\ \A i \in 1..Len(diffRevs) : diffRevs[i] = <<rev>>
        /\ \A i \in 1..Len(pytestCalls) : pytestCalls[i].flags = args

\* C4 for the arguments an unquoted expansion leaves whole: it holds when no
\* argument is empty or contains a blank.
C4_FlagPassedThroughPlain ==
    (\A i \in 1..Len(args) : args[i] # <<>> /\ " " \notin Range(args[i]))
        => C4_FlagPassedThrough

(***************************************************************************)
(* Properties of the test-file derivation.                                 *)
(***************************************************************************)
\* `changed` holds the derived test list: the pipeline has run, the
\* __init__.py rule has not.
Derived == pc = "augment"

\* `changed` holds the final file list: both diffs have run.
Final == Len(diffRevs) = 2

IsPy(p) == EndsWith(p, <<".py">>)

IsTest(p) == EndsWith(p, <<"_test", ".py">>)

\* P_test.py for the path P.py
TestFor(p) == SubSeq(p, 1, Len(p) - 1) \o <<"_test", ".py">>

\* C5: for a changed path P.py, P not ending in _test, with P_test.py on disk,
\* the derived test list contains P_test.py exactly once and no other entry
\* caused by that path; also when both P.py and P_test.py changed.
C5_TestFileOnce ==
    Derived =>
        \A p \in Range(diff1) :
            (IsPy(p) /\ ~IsTest(p) /\ TestFor(p) \in exists) =>
                /\ Count(TestFor(p), changed) = 1
                /\ Range(diff1) \subseteq {p, TestFor(p)} => changed = <<TestFor(p)>>
                /\ \A e \in Range(changed) :
                      \E q \in Range(diff1) : IsPy(q) /\ e \in {q, TestFor(q)}

C5_Witness ==
    /\ Derived
    /\ diff1 = <<FooPy, FooTest>>
    /\ FooTest \in exists
    /\ changed = <<FooTest>>

\* C6: for a changed path that already ends in _test.py and exists on disk the
\* derived entry is that same path and never a path ending in _test_test.py;
\* the derivation applied to its own output returns that output.
C6_TestFileIdempotent ==
    Derived =>
        /\ \A p \in Range(diff1) :
              (IsTest(p) /\ p \in exists) =>
                  /\ TestPathOf(p) = p
                  /\ p \in Range(changed)
                  /\ ~EndsWith(TestPathOf(p), <<"_test", "_test", ".py">>)
        /\ DeriveTests(changed) = changed

\* C6 as amended: the derived entry of such a path is that same path, once,
\* and an entry ends in _test_test.py only when it is itself a changed path;
\* the derivation applied to its own output returns that output.
C6_TestFileItself ==
    Derived =>
        /\ \A p \in Range(diff1) :
              (IsTest(p) /\ p \in exists) =>
                  /\ TestPathOf(p) = p
                  /\ Count(p, changed) = 1
        /\ \A e \in Range(changed) :
              EndsWith(e, <<"_test", "_test", ".py">>) => e \in Range(diff1)
        /\ DeriveTests(changed) = changed

C6_Witness ==
    /\ Derived
    /\ diff1 = <<FooTest, FooTestTest>>
    /\ {FooTest, FooTestTest} \subseteq exists
    /\ changed = <<FooTest, FooTestTest>>

\* C7: a changed .py path whose derived test path is not on disk has no entry
\* in the derived test list, and that alone never is an error: the run goes on
\* with the remaining entries.
C7_MissingTestDropped ==
    /\ Derived =>
          /\ \A p \in Range(diff1) :
                (IsPy(p) /\ TestPathOf(p) \notin exists) => TestPathOf(p) \notin Range(changed)
          /\ exitCode = NoExit
    /\ (pc = "done" /\ Final) =>
          /\ changed = <<>> => exitCode = 0
          /\ changed # <<>> =>
                /\ Len(pytestCalls) = 1
                /\ pytestCalls[1].files = changed
                /\ exitCode = pytestCalls[1].code

C7_Witness ==
    /\ pc = "done"
    /\ diff1 = <<FooPy, JsonPy>>
    /\ FooTest \notin exists
    /\ Len(pytestCalls) = 1
    /\ pytestCalls[1].files = <<FixedPath>>
    /\ exitCode = 0

\* C8: if a changed path ends in __init__.py, the fixed path
\* cirq-core/cirq/protocols/json_serialization_test.py occurs exactly once in
\* the final file list handed to pytest, for every changed-file set: several
\* __init__.py files, json_serialization.py or its test among the changes.
C8_FixedPathOnce ==
    (Final /\ HasInit(diff2)) =>
        /\ Count(FixedPath, changed) = 1
        /\ \A i \in 1..Len(pytestCalls) : Count(FixedPath, pytestCalls[i].files) = 1

\* C8 for the changes that do not derive the fixed path themselves: there it
\* occurs exactly once, however many __init__.py files changed.
C8_FixedPathOncePlain ==
    (Final /\ HasInit(diff2) /\ FixedPath \notin Range(DeriveTests(diff1))) =>
        /\ Count(FixedPath, changed) = 1
        /\ \A i \in 1..Len(pytestCalls) : Count(FixedPath, pytestCalls[i].files) = 1

\* C9: when the final file list is empty the run exits with code 0, pytest is
\* never invoked and the seed is neither computed nor exported.
C9_EmptyListExitsZero ==
    (Final /\ changed = <<>>) =>
        /\ pc \in {"report", "done"}
        /\ pc = "done" => exitCode = 0
        /\ pytestCalls = <<>>
        /\ gitLogCalls = 0
        /\ ~seed.exported
        /\ seed.val = seedEnv.val /\ seed.set = seedEnv.set

C9_Witness ==
    /\ pc = "done"
    /\ Final
    /\ diff1 = <<FooPy>>
    /\ changed = <<>>
    /\ exitCode = 0
    /\ stderr[Len(stderr)] = FoundMsg(0)

\* C10: when the revision resolves and the final file list is not empty, the
\* exit code of the run is the exit code pytest returned, whatever it is.
C10_ExitCodeIsPytests ==
    (pc = "done" /\ Final /\ changed # <<>>) =>
        /\ Len(pytestCalls) = 1
        /\ exitCode = pytestCalls[1].code

C10_Witness ==
    /\ pc = "done"
    /\ Final
    /\ changed # <<>>
    /\ Len(pytestCalls) = 1
    /\ pytestCalls[1].code = 5
    /\ exitCode = 5

(***************************************************************************)
(* Properties of the seed.                                                 *)
(***************************************************************************)
\* C11: two invocations that reach pytest with CIRQ_TESTING_RANDOM_SEED unset
\* in the environment and the same latest-commit timestamp export the same
\* seed: in each the seed pytest gets is that timestamp, whatever the
\* arguments, the revision and the changed files are.
C11_SeedIsCommitTime ==
    ~seedEnv.set =>
        \A i \in 1..Len(pytestCalls) :
            /\ pytestCalls[i].seed.exported
            /\ pytestCalls[i].seed.set
            /\ pytestCalls[i].seed.val = commitTime

C11_Witness ==
    /\ ~seedEnv.set
    /\ Len(pytestCalls) = 1
    /\ pytestCalls[1].seed.val = commitTime
    /\ rev = <<"HEAD">>
    /\ Len(args) = 2

\* C12: a CIRQ_TESTING_RANDOM_SEED that is set in the environment, to any
\* value, the empty one too, reaches pytest unchanged and the commit timestamp
\* is not used; the timestamp is taken only when the variable is unset.
C12_SeedFromEnvKept ==
    /\ seedEnv.set =>
          /\ gitLogCalls = 0
          /\ seed.val = seedEnv.val
          /\ \A i \in 1..Len(pytestCalls) :
                pytestCalls[i].seed.set /\ pytestCalls[i].seed.val = seedEnv.val
    /\ gitLogCalls > 0 => ~seedEnv.set

C12_Witness ==
    /\ seedEnv = [set |-> TRUE, val |-> <<>>]
    /\ Len(pytestCalls) = 1
    /\ pytestCalls[1].seed.val = <<>>
    /\ gitLogCalls = 0

(***************************************************************************)
(* Properties of the pytest command line.                                  *)
(***************************************************************************)
\* The first argument is taken as the revision.
RevisionArgGiven == Arg1 # <<>> /\ Head(Arg1) # "-"

\* The arguments that remain after the revision argument.
Remaining == IF RevisionArgGiven THEN Tail(args) ELSE args

\* No argument is empty or contains a blank.
PlainArgs == \A i \in 1..Len(args) : args[i] # <<>> /\ " " \notin Range(args[i])

\* C13: the arguments remaining after the revision argument are passed to
\* pytest verbatim: the extra arguments pytest receives equal, element by
\* element, in number and order, those the caller supplied, for every argument
\* list, arguments with blanks and empty arguments included.
C13_ArgsVerbatim ==
    \A i \in 1..Len(pytestCalls) : pytestCalls[i].flags = Remaining

\* C13 for arguments an unquoted expansion leaves whole: without blanks and
\* empty arguments pytest receives the remaining arguments as supplied.
C13_ArgsVerbatimPlain == PlainArgs => C13_ArgsVerbatim

(***************************************************************************)
(* Properties of the changed-file set and the final list.                  *)
(***************************************************************************)
\* The final list both rules make of the diff results d1 and d2.
FinalOf(d1, d2) == DeriveTests(d1) \o (IF HasInit(d2) THEN <<FixedPath>> ELSE <<>>)

\* Both diffs were given the same revision words.
SameRevision == Final /\ diffRevs[1] = diffRevs[2]

\* C14: the changed-file set is produced once per invocation and is immutable
\* afterward: the derivation and the __init__.py rule evaluate the same set,
\* also when another process modifies the working tree while the script runs,
\* so the final list is both rules applied to a single diff result.  Stated
\* for the runs whose two diffs are given the same revision words.
C14_SingleDiffResult ==
    SameRevision =>
        /\ diff1 = diff2
        /\ changed = FinalOf(diff1, diff1)

\* C14 when no other process touches the working tree: the two diffs of one
\* revision then report the same paths.
C14_SingleDiffResultQuiet == edits = 0 => C14_SingleDiffResult

\* The reports of the paths of d in any order, a path possibly repeated.
Reports(d) ==
    {s \in UNION {[1..n -> Range(d)] : n \in Len(d)..(Len(d) + 1)} : Range(s) = Range(d)}

Reverse(s) == [i \in 1..Len(s) |-> s[Len(s) + 1 - i]]

\* C15: the derived test-file sequence is duplicate-free and sorted and depends
\* only on the set of changed paths and the set of existing files: diffs that
\* report the same paths in another order or with repeats give the identical
\* final file list in the identical order.
C15_OrderIndependent ==
    /\ Derived =>
          /\ \A i, j \in 1..Len(changed) : i < j => LexLess(changed[i], changed[j])
          /\ \A s \in Reports(diff1) : DeriveTests(s) = changed
    /\ pc = "report" =>
          \A s \in {diff2, Reverse(diff2), diff2 \o diff2} :
              FinalOf(Reverse(diff1), s) = changed

C15_Witness ==
    /\ pc = "report"
    /\ diff1 = <<FooPy, JsonPy>>
    /\ diff2 = <<InitA, FooPy, JsonPy>>
    /\ changed = <<FooTest, FixedPath, FixedPath>>

IsInit(p) == EndsWith(p, <<"__init__", ".py">>)

TestOfChanged(f) ==
    /\ IsTest(f)
    /\ \E q \in Range(diff1) : IsPy(q) /\ f \in {q, TestFor(q)}

C18_ExplicitRevisionUsed ==
    /\ (RevisionArgGiven /\ IsCommit(Arg1)) =>
          /\ pc # "parse" => rev = Arg1
          /\ \A i \in 1..Len(diffRevs) : diffRevs[i] \in {<<Arg1>>, WordSplit(Arg1)}
          /\ \A i \in 1..Len(pytestCalls) : pytestCalls[i].flags = Tail(args)
    /\ StartsWith(Arg1, <<"-">>) =>
          \A k \in 2..Len(args) :
              (args[k] # <<>> /\ Head(args[k]) # "-") =>
                  /\ rev # args[k]
                  /\ args[k] \notin Range(checked)
                  /\ \A i \in 1..Len(pytestCalls) : args[k] \in Range(pytestCalls[i].flags)

\* C18 for arguments an unquoted expansion leaves whole.
C18_ExplicitRevisionUsedPlain == PlainArgs => C18_ExplicitRevisionUsed

\* The run ended with exit code 1 in revision resolution: no diff was made.
ResolutionFailed == pc = "done" /\ exitCode = 1 /\ diffRevs = <<>>

\* C19: pytest is invoked at most once per run, and only after a revision has
\* been resolved to a commit and the final file list has been found non-empty.
\* A run that ends with exit code 1 from revision resolution never invokes
\* pytest, and checks no revision a second time.
C19_PytestOnceAfterResolution ==
    /\ Len(pytestCalls) <= 1
    /\ pytestCalls # <<>> =>
          /\ IsCommit(rev)
          /\ Final
          /\ changed # <<>>
          /\ num_changed = Len(changed)
          /\ OnStderr(FoundMsg(num_changed))
          /\ pytestCalls[1].files = changed
    /\ pc \in {"seed", "pytest", "eof"} => IsCommit(rev) /\ Final /\ changed # <<>>
    /\ ResolutionFailed =>
          /\ pytestCalls = <<>>
          /\ gitLogCalls = 0
          /\ Len(stderr) = 1
          /\ \A i, j \in 1..Len(checked) : checked[i] = checked[j] => i = j

C19_Witness ==
    /\ pc = "done"
    /\ Len(pytestCalls) = 1
    /\ exitCode = 1
    /\ IsCommit(rev)
    /\ pytestCalls[1].files = <<FooTest>>

\* C20: pytest's argument list is the caller's extra flags followed by the
\* final file list; the final file list is the sorted derived paths followed,
\* last, by the fixed path when the __init__.py rule fired; no file path
\* precedes a caller flag.
C20_FlagsThenFiles ==
    \A i \in 1..Len(pytestCalls) :
        /\ pytestCalls[i].files = FinalOf(diff1, diff2)
        /\ pytestCalls[i].argv = Remaining \o pytestCalls[i].files
        /\ \A k \in 1..Len(pytestCalls[i].argv) :
              k <= Len(Remaining) <=> pytestCalls[i].argv[k] \in Range(Remaining)

\* C20 for arguments an unquoted expansion leaves whole.
C20_FlagsThenFilesPlain == PlainArgs => C20_FlagsThenFiles

\* A line of stderr is one of the two notices.
IsNotice(line) ==
    \/ Contains(line, <<"Comparing against revision '">>)
    \/ Contains(line, <<"Found ">>)

\* The run got past revision resolution.
Resolved == pc # "parse" /\ ~ResolutionFailed

\* C21: "Comparing against revision R" is written only after resolution
\* succeeded and before any diff, with R the revision given to the diffs;
\* "Found N test files" is written on every run that resolved a revision, also
\* when N is 0, before pytest starts, with N the length of the final file list
\* including the fixed path; a run that fails resolution writes neither.
C21_NoticesOrderedAccurate ==
    /\ pc \in {"parse", "announce"} => stderr = <<>> /\ diffRevs = <<>>
    /\ Resolved => IsCommit(rev)
    /\ pc = "derive" => stderr = <<ComparingMsg(rev)>> /\ diffRevs = <<>>
    /\ diffRevs # <<>> =>
          /\ stderr[1] = ComparingMsg(rev)
          /\ \A i \in 1..Len(diffRevs) : diffRevs[i] \in {<<rev>>, WordSplit(rev)}
    /\ pc \in {"augment", "report"} => stderr = <<ComparingMsg(rev)>>
    /\ (pc \in {"seed", "pytest", "eof"} \/ (pc = "done" /\ Resolved)) =>
          /\ Final
          /\ changed = FinalOf(diff1, diff2)
          /\ stderr = <<ComparingMsg(rev), FoundMsg(Len(changed))>>
    /\ pc \in {"augment", "report", "seed", "pytest"} => pytestCalls = <<>>
    /\ (pc = "done" /\ Resolved /\ pytestCalls = <<>>) =>
          exitCode = 0 /\ stderr[2] = FoundMsg(0)
    /\ ResolutionFailed =>
          /\ stderr \in {<<NoRevisionMsg(Arg1)>>, <<NoDefaultMsg>>}
          /\ \A i \in 1..Len(stderr) : ~IsNotice(stderr[i])

C21_Witness ==
    /\ pc = "done"
    /\ Len(pytestCalls) = 1
    /\ Len(changed) = 3
    /\ changed[3] = FixedPath
    /\ stderr = <<ComparingMsg(Upstream), FoundMsg(3)>>

\* The three ways a run ends.
ExitResolution == exitCode = 1 /\ diffRevs = <<>> /\ pytestCalls = <<>>

ExitEmpty ==
    /\ exitCode = 0
    /\ pytestCalls = <<>>
    /\ IsCommit(rev)
    /\ Final
    /\ changed = <<>>

ExitPytest ==
    /\ Len(pytestCalls) = 1
    /\ exitCode = pytestCalls[1].code
    /\ IsCommit(rev)
    /\ Final
    /\ changed # <<>>

Outcomes == {o \in {"resolution", "empty", "pytest"} :
                \/ o = "resolution" /\ ExitResolution
                \/ o = "empty" /\ ExitEmpty
                \/ o = "pytest" /\ ExitPytest}

\* C22: every invocation whose external calls return terminates, in exactly
\* one of three outcomes: exit 1 from revision resolution, exit 0 without a
\* pytest run because the final list is empty, or pytest's exit code after a
\* single pytest run; no step of the script is run again.
C22_TerminatesInOneOutcome ==
    /\ <>[](pc = "done" /\ Cardinality(Outcomes) = 1)
    /\ [][Rank(pc') > Rank(pc)]_pc
    /\ [](pc # "done" => exitCode = NoExit)

C22_Witness ==
    /\ pc = "done"
    /\ Outcomes = {"pytest"}
    /\ exitCode = 1
    /\ edits = 1

====
